---------------------------- MODULE Spec2Model ----------------------------
(***************************************************************************)
(* A model of creenv-canvas: the Canvas facade (src/unnamed/part_000, the  *)
(* module the package exports) over an HTMLCanvasElement, its              *)
(* CanvasRenderingContext2D and the window.                                *)
(*                                                                         *)
(* The facade's methods are operators from a world (the facade's fields,   *)
(* the canvas element, the context's state, the window and the calls the   *)
(* method issued) to the world after the call, so that a method calling    *)
(* another (init -> setSize, background -> fillStyle, the constructor ->   *)
(* init) is the composition the source writes.  One action per public      *)
(* operation applies the operator to the current state.                    *)
(***************************************************************************)
EXTENDS Integers, Sequences, FiniteSets

(* ----------------------------- bounds --------------------------------- *)

\* the largest viewport size and setSize argument
MaxDim == 1

\* most path operations recorded between two strokes, fills or resizes, and
\* most points of one path
MaxHist == 2

\* most entries of the context's save() stack
MaxSaves == 1

(* ------------------------ platform constants -------------------------- *)

\* an HTMLCanvasElement's width and height when none (or an invalid one) is set
DefaultCanvasWidth == 300

DefaultCanvasHeight == 150

\* a context's fillStyle and strokeStyle after creation or a reset
DefaultStyle == "#000000"

Null == "null"

Undefined == "undefined"

\* an optional boolean argument: <<>> when omitted, <<b>> when given
OptBool == {<<>>, <<TRUE>>, <<FALSE>>}

(* ------------------------------ state --------------------------------- *)

VARIABLES
  phase,          \* "none": not constructed, "ready": constructed, "threw": the constructor threw
  this,           \* the facade's fields
  canvasElement,  \* the HTMLCanvasElement: backing width and height, style.display
  context2d,      \* the context: fillStyle, strokeStyle, current path, save() stack
  window,         \* innerWidth, innerHeight, the resize listeners, a resize event not yet delivered
  body,           \* the elements the constructor appended to document.body
  lastOp,         \* the most recent operation and its arguments
  calls,          \* the calls on the element and the context that operation issued
  hist,           \* the path operations, each with its calls, since the one after the most
                  \* recent stroke, fill or resize (that one is the last entry until then)
  pts             \* the points addPoint was called with since the most recent stroke or fill

vars == <<phase, this, canvasElement, context2d, window, body, lastOp, calls, hist, pts>>

(* ------------------------- the world of a call ------------------------ *)

\* the state a method runs in; calls collects what the method issues
World ==
  [this |-> this, el |-> canvasElement, ctx |-> context2d, win |-> window,
   body |-> body, calls |-> <<>>, threw |-> FALSE]

Call(w, c) == [w EXCEPT !.calls = Append(@, c)]

Default(arg, d) == IF arg = <<>> THEN d ELSE arg[1]

(* --------------------- the platform's collaborators ------------------- *)

\* a context as getContext('2d') first returns it, and as a resize of the
\* backing store leaves it
FreshContext ==
  [fillStyle |-> DefaultStyle, strokeStyle |-> DefaultStyle,
   path |-> <<>>, stack |-> <<>>]

\* HTMLCanvasElement.width / height are unsigned: a negative value is not
\* stored, the attribute falls back to its default
ReflectDim(v, default) == IF v >= 0 THEN v ELSE default

\* canvas.width = v : sets the backing width and resets the context
canvasSetWidth(w, v) ==
  [Call(w, <<"canvas.width", v>>) EXCEPT
     !.el.width = ReflectDim(v, DefaultCanvasWidth), !.ctx = FreshContext]

\* canvas.height = v
canvasSetHeight(w, v) ==
  [Call(w, <<"canvas.height", v>>) EXCEPT
     !.el.height = ReflectDim(v, DefaultCanvasHeight), !.ctx = FreshContext]

ctxBeginPath(w) == [Call(w, <<"beginPath">>) EXCEPT !.ctx.path = <<>>]

ctxMoveTo(w, x, y) ==
  [Call(w, <<"moveTo", x, y>>) EXCEPT !.ctx.path = Append(@, <<"moveTo", x, y>>)]

ctxLineTo(w, x, y) ==
  [Call(w, <<"lineTo", x, y>>) EXCEPT !.ctx.path = Append(@, <<"lineTo", x, y>>)]

ctxArc(w, a, anticlockwise) ==
  [Call(w, <<"arc", a, anticlockwise>>) EXCEPT
     !.ctx.path = Append(@, <<"arc", a, anticlockwise>>)]

\* closePath closes the last subpath; it does nothing on a path with no
\* subpath, and nothing more on one just closed
ctxClosePath(w) ==
  [Call(w, <<"closePath">>) EXCEPT
     !.ctx.path = IF @ = <<>> \/ @[Len(@)] = <<"closePath">> THEN @
                  ELSE Append(@, <<"closePath">>)]

\* stroke and fill paint the current path with the style in force and keep it
ctxStroke(w) == Call(w, <<"stroke", w.ctx.strokeStyle>>)

ctxFill(w) == Call(w, <<"fill", w.ctx.fillStyle>>)

ctxFillRect(w, x, y, wd, ht) == Call(w, <<"fillRect", x, y, wd, ht, w.ctx.fillStyle>>)

ctxClearRect(w, x, y, wd, ht) == Call(w, <<"clearRect", x, y, wd, ht>>)

\* save pushes the styles (the path is no part of the saved state)
ctxSave(w) ==
  [Call(w, <<"save">>) EXCEPT
     !.ctx.stack = Append(@, <<w.ctx.fillStyle, w.ctx.strokeStyle>>)]

\* restore pops them, and does nothing on an empty stack
ctxRestore(w) ==
  IF w.ctx.stack = <<>> THEN Call(w, <<"restore">>)
  ELSE LET top == w.ctx.stack[Len(w.ctx.stack)] IN
       [Call(w, <<"restore">>) EXCEPT
          !.ctx.fillStyle = top[1], !.ctx.strokeStyle = top[2],
          !.ctx.stack = SubSeq(@, 1, Len(@) - 1)]

(* ------------------------- the facade's methods ----------------------- *)

setSize(w, width, height) ==
  LET w1 == canvasSetWidth(w, width)
      w2 == canvasSetHeight(w1, height)
  IN  [w2 EXCEPT !.this.width = width, !.this.height = height]

\* variant: the viewport's dimensions passed in the wrong order
handlerSwapped(w) == setSize(w, w.win.innerHeight, w.win.innerWidth)

onWindowResizeHandler(w) == setSize(w, w.win.innerWidth, w.win.innerHeight)

\* variant: init without its fullWindow test
initIgnoresFullWindow(w) ==
  LET w1 == [w EXCEPT !.el.display = "block"]
      w2 == setSize(w1, w1.win.innerWidth, w1.win.innerHeight)
  IN  [w2 EXCEPT !.win.listeners = @ \cup {"onWindowResizeHandler"}]

\* the promise's executor runs at once
init(w) ==
  IF w.this.fullWindow
  THEN LET w1 == [w EXCEPT !.el.display = "block"]
           w2 == setSize(w1, w1.win.innerWidth, w1.win.innerHeight)
       IN  [w2 EXCEPT !.win.listeners = @ \cup {"onWindowResizeHandler"}]
  ELSE [w EXCEPT !.this.width = w.el.width, !.this.height = w.el.height]

\* the fields' values as the constructor first sets them
NewFields ==
  [canvas |-> Null, context |-> Null, fullWindow |-> TRUE,
   pathStarted |-> FALSE, width |-> 0, height |-> 0]

\* document.createElement("canvas") and document.body.appendChild
createCanvas(w) ==
  [w EXCEPT
     !.el = [width |-> DefaultCanvasWidth, height |-> DefaultCanvasHeight, display |-> ""],
     !.ctx = FreshContext,
     !.body = @ \cup {"created"}]

\* variant: a constructor that initialises whatever autoInit says
CanvasAlwaysInit(w, canvasElement_, fullWindow_, autoInit_, withNew) ==
  IF ~withNew THEN [w EXCEPT !.threw = TRUE]
  ELSE
    LET w0 == [w EXCEPT !.this = NewFields]
        w1 == IF canvasElement_ = Undefined THEN createCanvas(w0) ELSE w0
        elem == IF canvasElement_ = Undefined THEN "created" ELSE canvasElement_
        w2 == [w1 EXCEPT !.this.canvas = elem]
    IN  IF elem = Null THEN [w2 EXCEPT !.threw = TRUE]
        ELSE init([w2 EXCEPT !.this.context = "2d",
                             !.this.fullWindow = Default(fullWindow_, TRUE)])

\* the constructor; called without new, Canvas.apply is no constructor: TypeError.
\* this.canvas.getContext on a null canvas: TypeError.
Canvas(w, canvasElement_, fullWindow_, autoInit_, withNew) ==
  IF ~withNew THEN [w EXCEPT !.threw = TRUE]
  ELSE
    LET w0 == [w EXCEPT !.this = NewFields]
        w1 == IF canvasElement_ = Undefined THEN createCanvas(w0) ELSE w0
        elem == IF canvasElement_ = Undefined THEN "created" ELSE canvasElement_
        fw == Default(fullWindow_, TRUE)
        ai == Default(autoInit_, TRUE)
        w2 == [w1 EXCEPT !.this.canvas = elem]
    IN  IF elem = Null THEN [w2 EXCEPT !.threw = TRUE]
        ELSE LET w3 == [w2 EXCEPT !.this.context = "2d", !.this.fullWindow = fw]
             IN  IF ai THEN init(w3) ELSE w3

fillStyle(w, style) == [w EXCEPT !.ctx.fillStyle = style]

strokeStyle(w, style) == [w EXCEPT !.ctx.strokeStyle = style]

\* variant: background without the restore of the fill style
backgroundKeepsColor(w, color) ==
  IF color = <<>>
  THEN ctxFillRect(w, 0, 0, w.el.width, w.el.height)
  ELSE LET w1 == fillStyle(w, color[1])
       IN  ctxFillRect(w1, 0, 0, w1.el.width, w1.el.height)

background(w, color) ==
  IF color = <<>>
  THEN ctxFillRect(w, 0, 0, w.el.width, w.el.height)
  ELSE LET fillstyle == w.ctx.fillStyle
           w1 == fillStyle(w, color[1])
           w2 == ctxFillRect(w1, 0, 0, w1.el.width, w1.el.height)
       IN  fillStyle(w2, fillstyle)

rect(w, x, y, width, height) == ctxFillRect(w, x, y, width, height)

\* variant: an arc that starts a fresh path also resets pathStarted
arcResetsFlag(w, a, anticlockwise_, addToPath_) ==
  LET anticlockwise == Default(anticlockwise_, FALSE)
      addToPath == Default(addToPath_, FALSE)
      w1 == IF ~addToPath THEN [ctxBeginPath(w) EXCEPT !.this.pathStarted = FALSE] ELSE w
  IN  ctxArc(w1, a, anticlockwise)

arc(w, a, anticlockwise_, addToPath_) ==
  LET anticlockwise == Default(anticlockwise_, FALSE)
      addToPath == Default(addToPath_, FALSE)
      w1 == IF ~addToPath THEN ctxBeginPath(w) ELSE w
  IN  ctxArc(w1, a, anticlockwise)

\* variant: the first point moves the pen without beginning a path
addPointNoBegin(w, x, y) ==
  IF ~w.this.pathStarted
  THEN [ctxMoveTo(w, x, y) EXCEPT !.this.pathStarted = TRUE]
  ELSE ctxLineTo(w, x, y)

addPoint(w, x, y) ==
  IF ~w.this.pathStarted
  THEN [ctxMoveTo(ctxBeginPath(w), x, y) EXCEPT !.this.pathStarted = TRUE]
  ELSE ctxLineTo(w, x, y)

\* variant: the path closed after it was stroked
strokeClosesAfter(w, closed_) ==
  LET closed == Default(closed_, FALSE)
      w1 == ctxStroke(w)
      w2 == IF closed THEN ctxClosePath(w1) ELSE w1
  IN  [w2 EXCEPT !.this.pathStarted = FALSE]

stroke(w, closed_) ==
  LET closed == Default(closed_, FALSE)
      w1 == IF closed THEN ctxClosePath(w) ELSE w
  IN  [ctxStroke(w1) EXCEPT !.this.pathStarted = FALSE]

\* variant: fill without the reset of pathStarted
fillKeepsFlag(w, closed_) ==
  LET closed == Default(closed_, FALSE)
      w1 == IF closed THEN ctxClosePath(w) ELSE w
  IN  ctxFill(w1)

fill(w, closed_) ==
  LET closed == Default(closed_, FALSE)
      w1 == IF closed THEN ctxClosePath(w) ELSE w
  IN  [ctxFill(w1) EXCEPT !.this.pathStarted = FALSE]

save(w) == ctxSave(w)

restore(w) == ctxRestore(w)

clearAll(w) == ctxClearRect(w, 0, 0, w.el.width, w.el.height)

(* ------------------------------ inputs -------------------------------- *)

\* the points of src/lib/test.js
Points == {<<20, 20>>, <<40, 10>>, <<50, 90>>}

\* arc(x, y, radius, startAngle, endAngle): the arc of the documentation
Arcs == {<<0, 0, 10, 0, "PI">>}

\* rect(x, y, width, height)
Rects == {<<0, 0, 1, 1>>}

\* new Canvas(), the call of src/lib/test.js, and a call with every argument given
DefaultCtor == <<Undefined, <<>>, <<>>, TRUE>>

AllCtors == {Undefined, Null, "elem"} \X OptBool \X OptBool \X BOOLEAN

\* the operations that end a window of the history of path operations
BoundaryOps == {"stroke", "fill", "setSize", "init", "resizeEvent", "Canvas"}

\* the operations that history records
PathOps == BoundaryOps \cup {"addPoint", "arc"}

StyleOps == {"background", "fillStyle", "strokeStyle", "save", "restore", "rect", "clearAll"}

\* What the operations are called with, and which of them lastOp and calls
\* tell apart (the others are recorded as <<"other">>).  The path, the sizes and the styles do
\* not read one another's state (but for a resize resetting the context), so each
\* specification lets one of them range widely and keeps the inputs of the others
\* few; every operation is called under each.
PathInputs ==
  [points |-> Points,
   arcs |-> Arcs \X {<<>>} \X OptBool,
   closed |-> OptBool,
   ctors |-> {DefaultCtor, <<Null, <<TRUE>>, <<>>, TRUE>>},
   elems |-> {<<100, 50>>},
   views |-> {<<0, 0>>, <<MaxDim, MaxDim>>},
   sizes |-> {<<MaxDim, MaxDim>>},
   styles |-> {DefaultStyle},
   observed |-> PathOps,
   maxHist |-> MaxHist]

SizeInputs ==
  [points |-> {<<20, 20>>},
   arcs |-> Arcs \X {<<>>} \X {<<>>},
   closed |-> {<<>>},
   ctors |-> AllCtors,
   elems |-> {<<100, 50>>},
   views |-> {0, MaxDim} \X {0, MaxDim},
   sizes |-> {-1, MaxDim} \X {-1, 0, MaxDim},
   styles |-> {DefaultStyle},
   observed |-> PathOps,
   maxHist |-> 1]

StyleInputs ==
  [points |-> {<<20, 20>>},
   arcs |-> Arcs \X {<<>>} \X {<<>>},
   closed |-> {<<>>},
   ctors |-> {DefaultCtor},
   elems |-> {<<100, 50>>},
   views |-> {<<0, 0>>, <<MaxDim, MaxDim>>},
   sizes |-> {<<MaxDim, MaxDim>>},
   styles |-> {DefaultStyle, "red"},
   observed |-> PathOps \cup StyleOps,
   maxHist |-> 1]

(* ------------------------------ history ------------------------------- *)

IsBoundary(op) == op[1] \in BoundaryOps

IsPathOp(op) == op[1] \in PathOps

Closed(h) == h # <<>> /\ IsBoundary(h[Len(h)].op)

NextHist(op, cs) ==
  IF IsPathOp(op)
  THEN (IF Closed(hist) THEN <<>> ELSE hist) \o <<[op |-> op, calls |-> cs]>>
  ELSE hist

NextPts(op) ==
  IF op[1] = "addPoint" THEN Append(pts, <<op[2], op[3]>>)
  ELSE IF op[1] \in {"stroke", "fill"} THEN <<>>
  ELSE pts

(* ------------------------------ actions ------------------------------- *)

InitWith(I) ==
  /\ phase = "none"
  /\ this = NewFields
  /\ \E e \in I.elems : canvasElement = [width |-> e[1], height |-> e[2], display |-> ""]
  /\ context2d = FreshContext
  /\ \E v \in I.views :
       window = [innerWidth |-> v[1], innerHeight |-> v[2], listeners |-> {}, pending |-> FALSE]
  /\ body = {}
  /\ lastOp = <<"none">>
  /\ calls = <<>>
  /\ hist = <<>>
  /\ pts = <<>>

\* the state after operation op left the world w.  The histories and the path
\* are bounded: addPoint and arc wait for room, the other operations always run
\* (save, while the stack has room).
Commit(I, w, op) ==
  /\ op[1] \in {"addPoint", "arc"} =>
       /\ Len(NextHist(op, w.calls)) <= I.maxHist
       /\ Len(NextPts(op)) <= MaxHist
       /\ Len(w.ctx.path) <= MaxHist
  /\ Len(w.ctx.stack) <= MaxSaves
  /\ this' = w.this
  /\ canvasElement' = w.el
  /\ context2d' = w.ctx
  /\ window' = w.win
  /\ body' = w.body
  /\ lastOp' = IF op[1] \in I.observed THEN op ELSE <<"other">>
  /\ calls' = IF op[1] \in I.observed THEN w.calls ELSE <<>>
  /\ hist' = NextHist(op, w.calls)
  /\ pts' = NextPts(op)

Construct(I) ==
  /\ phase = "none"
  /\ \E c \in I.ctors :
       LET w == Canvas(World, c[1], c[2], c[3], c[4]) IN
       /\ phase' = IF w.threw THEN "threw" ELSE "ready"
       /\ Commit(I, w, <<"Canvas", c[1], c[2], c[3], c[4]>>)

Initialize(I) ==
  /\ phase = "ready"
  /\ Commit(I, init(World), <<"init">>)
  /\ UNCHANGED phase

SetSize(I) ==
  /\ phase = "ready"
  /\ \E s \in I.sizes : Commit(I, setSize(World, s[1], s[2]), <<"setSize", s[1], s[2]>>)
  /\ UNCHANGED phase

AddPoint(I) ==
  /\ phase = "ready"
  /\ \E p \in I.points : Commit(I, addPoint(World, p[1], p[2]), <<"addPoint", p[1], p[2]>>)
  /\ UNCHANGED phase

Stroke(I) ==
  /\ phase = "ready"
  /\ \E closed \in I.closed : Commit(I, stroke(World, closed), <<"stroke", closed>>)
  /\ UNCHANGED phase

Fill(I) ==
  /\ phase = "ready"
  /\ \E closed \in I.closed : Commit(I, fill(World, closed), <<"fill", closed>>)
  /\ UNCHANGED phase

Arc(I) ==
  /\ phase = "ready"
  /\ \E a \in I.arcs : Commit(I, arc(World, a[1], a[2], a[3]), <<"arc", a[1], a[2], a[3]>>)
  /\ UNCHANGED phase

Rect(I) ==
  /\ phase = "ready"
  /\ \E r \in Rects : Commit(I, rect(World, r[1], r[2], r[3], r[4]), <<"rect", r>>)
  /\ UNCHANGED phase

FillStyle(I) ==
  /\ phase = "ready"
  /\ \E style \in I.styles : Commit(I, fillStyle(World, style), <<"fillStyle", style>>)
  /\ UNCHANGED phase

StrokeStyle(I) ==
  /\ phase = "ready"
  /\ \E style \in I.styles : Commit(I, strokeStyle(World, style), <<"strokeStyle", style>>)
  /\ UNCHANGED phase

Background(I) ==
  /\ phase = "ready"
  /\ \E color \in {<<>>} \cup {<<s>> : s \in I.styles} :
       Commit(I, background(World, color), <<"background", color>>)
  /\ UNCHANGED phase

Save(I) ==
  /\ phase = "ready"
  /\ Commit(I, save(World), <<"save">>)
  /\ UNCHANGED phase

Restore(I) ==
  /\ phase = "ready"
  /\ Commit(I, restore(World), <<"restore">>)
  /\ UNCHANGED phase

ClearAll(I) ==
  /\ phase = "ready"
  /\ Commit(I, clearAll(World), <<"clearAll">>)
  /\ UNCHANGED phase

\* the user resizes the window: the viewport changes and a resize event is queued
ViewportChange(I) ==
  /\ phase = "ready"
  /\ \E v \in I.views :
       /\ v # <<window.innerWidth, window.innerHeight>>
       /\ Commit(I, [World EXCEPT !.win.innerWidth = v[1], !.win.innerHeight = v[2],
                                  !.win.pending = TRUE],
                 <<"viewportChange", v[1], v[2]>>)
  /\ UNCHANGED phase

\* the event loop delivers the resize event to the registered listeners
ResizeEvent(I) ==
  /\ phase = "ready"
  /\ window.pending
  /\ LET w0 == [World EXCEPT !.win.pending = FALSE]
         w == IF "onWindowResizeHandler" \in w0.win.listeners
              THEN onWindowResizeHandler(w0) ELSE w0
     IN  Commit(I, w, <<"resizeEvent">>)
  /\ UNCHANGED phase

NextWith(I) ==
  \/ Construct(I)
  \/ Initialize(I)
  \/ SetSize(I)
  \/ AddPoint(I)
  \/ Stroke(I)
  \/ Fill(I)
  \/ Arc(I)
  \/ Rect(I)
  \/ FillStyle(I)
  \/ StrokeStyle(I)
  \/ Background(I)
  \/ Save(I)
  \/ Restore(I)
  \/ ClearAll(I)
  \/ ViewportChange(I)
  \/ ResizeEvent(I)

\* the path operations range widely
NextPath == NextWith(PathInputs)

SpecPath == InitWith(PathInputs) /\ [][NextPath]_vars

\* the constructor's arguments, the sizes and the viewport range widely
NextSize == NextWith(SizeInputs)

SpecSize == InitWith(SizeInputs) /\ [][NextSize]_vars

\* the styles range widely
NextStyle == NextWith(StyleInputs)

SpecStyle == InitWith(StyleInputs) /\ [][NextStyle]_vars

(* ------------------------- what the claims use ------------------------ *)

Ready == phase = "ready"

Listener == "onWindowResizeHandler"

\* the facade's and the surface's dimensions are both (wd, ht)
Dims(wd, ht) ==
  /\ this.width = wd
  /\ this.height = ht
  /\ canvasElement.width = wd
  /\ canvasElement.height = ht

\* the path through the points ps: a moveTo, then lineTos
Poly(ps) ==
  [i \in 1..Len(ps) |->
     IF i = 1 THEN <<"moveTo", ps[i][1], ps[i][2]>> ELSE <<"lineTo", ps[i][1], ps[i][2]>>]

\* the calls that draw it
PolyCalls(ps) == <<<<"beginPath">>>> \o Poly(ps)

RECURSIVE Flatten(_)
\* the calls of a history, in order
Flatten(h) == IF h = <<>> THEN <<>> ELSE h[1].calls \o Flatten(Tail(h))

AddIdx == {i \in 1..Len(hist) : hist[i].op[1] = "addPoint"}

\* every addPoint since the last stroke or fill is in the history, and no arc,
\* setSize, init, resize event or construction came after the first of them
Undisturbed ==
  /\ Cardinality(AddIdx) = Len(pts)
  /\ \A i \in AddIdx : \A j \in (i + 1)..Len(hist) : j \in AddIdx

\* the calls of the most recent addPoint: a new path at the first point, a line after
AddPointCalls ==
  lastOp[1] = "addPoint" =>
    calls = IF Len(pts) = 1 THEN PolyCalls(pts) ELSE <<<<"lineTo", lastOp[2], lastOp[3]>>>>

\* what stroke(closed) and fill(closed) issue, with the style in force
PaintCalls(op) ==
  (IF Default(op[2], FALSE) THEN <<<<"closePath">>>> ELSE <<>>)
    \o <<<<op[1], IF op[1] = "stroke" THEN context2d.strokeStyle ELSE context2d.fillStyle>>>>

\* the last operation ran init: init(), or a constructor with autoInit omitted or true
RanInit == lastOp[1] = "init" \/ (lastOp[1] = "Canvas" /\ Ready /\ Default(lastOp[4], TRUE))

(* ------------------------------- claims ------------------------------- *)

C1_Inv == phase # "none" => (this.pathStarted <=> pts # <<>>)

C1_Step ==
  this'.pathStarted # this.pathStarted =>
    IF this'.pathStarted THEN lastOp'[1] = "addPoint" ELSE lastOp'[1] \in {"stroke", "fill"}

\* C1: pathStarted is true exactly when addPoint was called since the most recent
\* stroke or fill (or since construction); only addPoint turns it on, only stroke
\* and fill turn it off.
C1_PathFlag == []C1_Inv /\ [][C1_Step]_vars

\* the flag is still true after a resize reset the surface's path
C1_Witness == this.pathStarted /\ pts # <<>> /\ lastOp[1] = "setSize" /\ context2d.path = <<>>

\* C2 as stated: after addPoint calls p1..pn with no stroke or fill between them,
\* whatever else was called, the flag is true, the first call issued beginPath and
\* moveTo, the later ones lineTo, and the surface's path is the polyline p1..pn.
C2_Original ==
  Ready /\ pts # <<>> =>
    /\ this.pathStarted
    /\ AddPointCalls
    /\ context2d.path = Poly(pts)

\* C2 amended: the same, the path being the polyline when no arc, setSize, init or
\* resize event came between the addPoint calls either.
C2_Polyline ==
  Ready /\ pts # <<>> =>
    /\ this.pathStarted
    /\ AddPointCalls
    /\ Undisturbed => context2d.path = Poly(pts)

\* two points added with a save between them
C2_Witness ==
  /\ Len(pts) = 2
  /\ pts[1] # pts[2]
  /\ Undisturbed
  /\ context2d.stack # <<>>
  /\ context2d.path = Poly(pts)

C3_Inv ==
  lastOp[1] \in {"stroke", "fill"} => calls = PaintCalls(lastOp) /\ ~this.pathStarted

C3_Step ==
  /\ lastOp'[1] \in {"stroke", "fill"} /\ pts # <<>> /\ Undisturbed /\ Len(hist) = Len(pts)
       => Flatten(hist') = PolyCalls(pts) \o PaintCalls(lastOp')
  /\ lastOp[1] \in {"stroke", "fill"} /\ lastOp'[1] = "addPoint"
       => calls' = PolyCalls(<<<<lastOp'[2], lastOp'[3]>>>>)

\* C3: stroke(closed) and fill(closed) issue the surface's stroke (fill) once,
\* closePath before it exactly when closed is true, and leave the flag false; n
\* addPoint calls and then stroke(true) make beginPath, moveTo, n-1 lineTo,
\* closePath, stroke, and the next addPoint begins a new path.
C3_Paint == []C3_Inv /\ [][C3_Step]_vars

\* two points, then stroke(true)
C3_Witness ==
  /\ lastOp = <<"stroke", <<TRUE>>>>
  /\ Len(hist) = 3
  /\ hist[1].op[1] = "addPoint"
  /\ hist[2].op[1] = "addPoint"
  /\ Flatten(hist) = <<<<"beginPath">>, <<"moveTo", 20, 20>>, <<"lineTo", 40, 10>>,
                       <<"closePath">>, <<"stroke", DefaultStyle>>>>
  /\ ~this.pathStarted

C4_Inv ==
  Ready /\ this.fullWindow =>
    /\ RanInit => Dims(window.innerWidth, window.innerHeight) /\ Listener \in window.listeners
    /\ lastOp[1] = "resizeEvent" /\ Listener \in window.listeners
         => Dims(window.innerWidth, window.innerHeight)

C4_Step == window.listeners \subseteq window'.listeners

\* C4: with fullWindow, init makes the facade's and the surface's dimensions the
\* viewport's and registers the listener, which stays; every resize event delivered
\* after that makes them the new viewport's.
C4_FullWindow == []C4_Inv /\ [][C4_Step]_vars

\* a resize event delivered the viewport MaxDim x 0
C4_Witness ==
  /\ lastOp[1] = "resizeEvent"
  /\ this.fullWindow
  /\ Listener \in window.listeners
  /\ window.innerWidth = MaxDim
  /\ window.innerHeight = 0
  /\ Dims(MaxDim, 0)

C5_Inv ==
  Ready /\ ~this.fullWindow =>
    /\ window.listeners = {}
    /\ RanInit => this.width = canvasElement.width /\ this.height = canvasElement.height

C5_Step ==
  Ready /\ ~this.fullWindow =>
    /\ lastOp'[1] = "init" => canvasElement' = canvasElement
    /\ window' # window => this' = this /\ canvasElement' = canvasElement

\* C5: without fullWindow, init copies the surface's dimensions to the facade,
\* leaves the surface alone and registers no listener; no viewport change or
\* resize event changes the facade's or the surface's dimensions.
C5_FixedSize == []C5_Inv /\ [][C5_Step]_vars

\* the 100 x 50 surface, initialised in another viewport
C5_Witness ==
  /\ lastOp[1] = "init"
  /\ ~this.fullWindow
  /\ this.width = 100
  /\ this.height = 50
  /\ window.innerWidth = MaxDim
  /\ canvasElement.width = 100

\* C6 as stated: setSize(w, h) makes the surface's and the facade's dimensions
\* (w, h), for any w and h, negative ones included.
C6_Original == lastOp[1] = "setSize" => Dims(lastOp[2], lastOp[3])

\* C7 as stated: a constructed facade's surface is never null; a supplied surface
\* is adopted, and for an omitted or null one a surface is created, attached and
\* adopted, and its context obtained.
C7_Original ==
  /\ Ready => this.canvas # Null /\ this.context # Null
  /\ lastOp[1] = "Canvas" /\ lastOp[5] =>
       /\ Ready
       /\ lastOp[2] = "elem" => this.canvas = "elem"
       /\ lastOp[2] \in {Undefined, Null} => this.canvas = "created" /\ "created" \in body

C8_Inv ==
  lastOp[1] = "Canvas" /\ Ready =>
    /\ lastOp[4] = <<FALSE>> =>
         /\ window.listeners = {}
         /\ canvasElement.display = ""
         /\ this.width = 0 /\ this.height = 0
         /\ lastOp[2] = Undefined =>
              canvasElement.width = DefaultCanvasWidth /\ canvasElement.height = DefaultCanvasHeight
    /\ Default(lastOp[4], TRUE) =>
         IF this.fullWindow
         THEN Dims(window.innerWidth, window.innerHeight) /\ Listener \in window.listeners
         ELSE this.width = canvasElement.width /\ this.height = canvasElement.height

C8_Step ==
  /\ lastOp'[1] = "Canvas" /\ lastOp'[2] = "elem" /\ lastOp'[4] = <<FALSE>>
       => canvasElement' = canvasElement
  /\ window'.listeners # window.listeners
       => lastOp'[1] = "init" \/ (lastOp'[1] = "Canvas" /\ Default(lastOp'[4], TRUE))

C9_Inv ==
  lastOp[1] = "arc" =>
    calls = (IF Default(lastOp[4], FALSE) THEN <<>> ELSE <<<<"beginPath">>>>)
              \o <<<<"arc", lastOp[2], Default(lastOp[3], FALSE)>>>>

C9_Step ==
  lastOp'[1] = "arc" =>
    /\ this' = this
    /\ context2d'.path =
         IF Default(lastOp'[4], FALSE)
         THEN Append(context2d.path, <<"arc", lastOp'[2], Default(lastOp'[3], FALSE)>>)
         ELSE <<<<"arc", lastOp'[2], Default(lastOp'[3], FALSE)>>>>

\* C9: arc issues beginPath before the arc when addToPath is false or omitted and
\* none when it is true, appending to the current path; the flag is unchanged.
C9_Arc == []C9_Inv /\ [][C9_Step]_vars

\* the flag is true and the surface's path holds none of the points added
C9_Witness ==
  /\ this.pathStarted
  /\ pts # <<>>
  /\ lastOp[1] = "arc"
  /\ ~Default(lastOp[4], FALSE)
  /\ Len(context2d.path) = 1
  /\ context2d.path[1][1] = "arc"

C10_Inv ==
  lastOp[1] = "background" =>
    calls = <<<<"fillRect", 0, 0, canvasElement.width, canvasElement.height,
                IF lastOp[2] = <<>> THEN context2d.fillStyle ELSE lastOp[2][1]>>>>

C10_Step ==
  lastOp'[1] = "background" =>
    /\ context2d' = context2d
    /\ this' = this
    /\ canvasElement' = canvasElement

\* C10: background(color) fills (0, 0, surface width, surface height) with color,
\* background() with the current fill style; the fill style, the flag and the
\* facade's dimensions are what they were.
C10_Background == []C10_Inv /\ [][C10_Step]_vars

\* a background of another colour than the fill style
C10_Witness ==
  /\ lastOp = <<"background", <<"red">>>>
  /\ context2d.fillStyle = DefaultStyle
  /\ calls[1][6] = "red"
  /\ canvasElement.width = MaxDim

=============================================================================
